---- MODULE Spec2Model ----
(***************************************************************************)
(* Model of the downloader's Processor (src/api/api.go, package main       *)
(* part): Processor.Start, WorkerPool.Start, WorkerPool.Work and the       *)
(* worker goroutine wrapper, over an abstract job store and HTTP server.   *)
(*                                                                         *)
(* Goroutines are modelled as processes: the host, the Processor, one      *)
(* WorkerPool.Start goroutine per aggregation and a bag of anonymous       *)
(* worker goroutines per pool.  The job package (PopJob, SetState,         *)
(* SetStateWithMeta, RetryOrFail, GetAggregation) and the host are not     *)
(* part of the source at hand and are modelled from the specification.     *)
(*                                                                         *)
(* The ingress API (package api, API.ServeHTTP) is a process of its own     *)
(* that shares the store: the module specifies it apart (ApiSpec), two      *)
(* concurrent POST /download requests over an empty store, its storage      *)
(* package modelled from the specification.                                 *)
(***************************************************************************)
EXTENDS Integers, Sequences, FiniteSets, TLC

\* ------------------------------------------------------------ bounds ----
MaxLimit == 2          \* the Aggregation.Limit of aggregation a1
MaxRetries == 2        \* the configured retry ceiling of RetryOrFail

\* --------------------------------------------------- program constants ---
ChanCap == 1           \* make(chan Job, 1)
MaxTries == 3          \* for i := 0; i < 3; i++
StatusCreated == 201
StatusInternalServerError == 500
StatusBadRequest == 400

AggrIDs == {"a1", "a2"}
Jobs == {"j1"}
ZeroID == ""                         \* ID of the zero-valued Job
JobIDs == Jobs \cup {ZeroID}
StatusCodes == {200, 404, 408, 500}  \* status codes the server may answer
\* The server answers every attempt at a job with another body: the body
\* served to the attempt made with retry counter n is n.
Body(n) == n
NoBody == -1
NoJob == [id |-> "none", retries |-> 0]
ZeroJob == [id |-> ZeroID, retries |-> 0]

\* The aggregation each job names; a2 is an aggregation with no pending job.
JobAggr(j) == "a1"

VARIABLES
  \* ---- store (Redis) and filesystem
  aggrLimit,      \* aggregation records: id -> Limit
  jobURL,         \* per job, "tls" if the URL contains the text "tls" or
                  \* "x509", else "plain"
  queue,          \* pending queue per aggregation: Seq of job ids
  jobState,       \* stored state per job id
  jobRetries,     \* stored retry counter per job id
  jobMeta,        \* stored metadata per job id
  file,           \* file at saveDir + job.ID
  \* ---- host and Processor.Start
  hostPc, procPc, ctxCancelled, registry,
  \* ---- WorkerPool.Start, per aggregation
  wpPc, wpJob, jobChan, chanClosed, activeWorkers, wg,
  \* ---- worker goroutines, per aggregation
  wNew,           \* spawned, IncreaseWorkers not yet called
  wSelect,        \* in Work, at the select
  wBusy,          \* in Work, holding a received job: job value -> count
  wExit,          \* returned from Work, deferred calls not yet run
  \* ---- history
  nStarted,       \* WorkerPool.Start goroutines spawned, per aggregation
  nReaped,        \* terminations received from workerClose, per aggregation
  lastOp,         \* what the Processor's last step did with a scanned key:
                  \* "skip" (in the registry), "get" (GetAggregation called)
                  \* or "-" (no key)
  requeues,       \* InProgress->Pending transitions per job
  served,         \* body the job's latest attempt was served, or NoBody
  \* ---- ingress API (package api): one ServeHTTP call per request
  reqPc,          \* position of the handler
  reqID,          \* j.ID
  reqTries,       \* i of the ID loop
  reqAggr,        \* aggr.ID of the request body
  reqLimit,       \* aggr.Limit of the request body
  reqResp,        \* status code answered, 0 while unanswered
  saves           \* SaveAggregation writes made, per aggregation (history)

storeVars == <<aggrLimit, jobURL, queue, jobState, jobRetries, jobMeta, file,
               requeues, served>>
procVars == <<hostPc, procPc, ctxCancelled, registry, nStarted, nReaped,
              lastOp>>
poolVars == <<wpPc, wpJob, jobChan, chanClosed, activeWorkers, wg>>
workerVars == <<wNew, wSelect, wBusy, wExit>>
apiVars == <<reqPc, reqID, reqTries, reqAggr, reqLimit, reqResp, saves>>
vars == <<storeVars, procVars, poolVars, workerVars, apiVars>>

States == {"Pending", "InProgress", "Success", "Failed"}
Terminal == {"Success", "Failed"}

Absent == "Absent"                   \* no record stored under the id
NoMeta == [text |-> "", code |-> 0]
Meta(text, code) == [text |-> text, code |-> code]
NoFile == [kind |-> "absent", body |-> NoBody]
EmptyFile == [kind |-> "empty", body |-> NoBody]
PartialFile == [kind |-> "partial", body |-> NoBody]
FullFile(b) == [kind |-> "full", body |-> b]

\* ------------------------------------------------ bags of goroutines ----
EmptyBag == <<>>
BagCount(b, x) == IF x \in DOMAIN b THEN b[x] ELSE 0
BagAdd(b, x) ==
  [y \in DOMAIN b \cup {x} |-> IF y = x THEN BagCount(b, x) + 1 ELSE b[y]]
BagRemove(b, x) ==
  IF b[x] = 1 THEN [y \in DOMAIN b \ {x} |-> b[y]]
  ELSE [b EXCEPT ![x] = @ - 1]
RECURSIVE BagSize(_)
BagSize(b) ==
  IF DOMAIN b = {} THEN 0
  ELSE LET x == CHOOSE y \in DOMAIN b : TRUE
       IN b[x] + BagSize([y \in DOMAIN b \ {x} |-> b[y]])

\* ---------------------------------------------------- the job store ----
\* The store as one value, so that calls compose.
Store == [state |-> jobState, retries |-> jobRetries, meta |-> jobMeta,
          queue |-> queue, requeues |-> requeues]
Commit(S) ==
  /\ jobState' = S.state
  /\ jobRetries' = S.retries
  /\ jobMeta' = S.meta
  /\ queue' = S.queue
  /\ requeues' = S.requeues

\* Job.SetState / Job.SetStateWithMeta: one write; ok = FALSE is a backend
\* error, which leaves the record as it was.
SetState(S, id, st, ok) ==
  IF ok THEN [S EXCEPT !.state[id] = st] ELSE S
SetStateWithMeta(S, id, st, meta, ok) ==
  IF ok THEN [S EXCEPT !.state[id] = st, !.meta[id] = meta] ELSE S

\* The pending queue the job goes back to.  The zero-valued Job names the
\* aggregation "", whose queue no pool of AggrIDs consumes: it is left out.
Requeue(q, id) ==
  IF id \in Jobs THEN [q EXCEPT ![JobAggr(id)] = Append(@, id)] ELSE q

\* Job.RetryOrFail on the worker's copy jv of the job.
CanRetry(jv) == jv.retries < MaxRetries
RetryOrFail(S, jv, reason) ==
  IF CanRetry(jv)
  THEN [S EXCEPT !.state[jv.id] = "Pending",
                 !.retries[jv.id] = jv.retries + 1,
                 !.meta[jv.id] = reason,
                 !.queue = Requeue(S.queue, jv.id),
                 !.requeues[jv.id] =
                     @ + (IF S.state[jv.id] = "InProgress" THEN 1 ELSE 0)]
  ELSE SetStateWithMeta(S, jv.id, "Failed", reason, TRUE)

\* ------------------------------------------------------------- Init ----
RECURSIVE SeqOf(_)
SeqOf(S) ==     \* the jobs of S in a fixed order
  IF S = {} THEN <<>>
  ELSE LET x == CHOOSE y \in S : \A z \in S : y = "j1" \/ z # "j1"
       IN <<x>> \o SeqOf(S \ {x})

\* Everything but the content of the store.
InitProgram ==
  /\ hostPc = "running"
  /\ procPc = "select"
  /\ ctxCancelled = FALSE
  /\ registry = <<>>
  /\ nStarted = [a \in AggrIDs |-> 0]
  /\ nReaped = [a \in AggrIDs |-> 0]
  /\ lastOp = "-"
  /\ wpPc = [a \in AggrIDs |-> "none"]
  /\ wpJob = [a \in AggrIDs |-> NoJob]
  /\ jobChan = [a \in AggrIDs |-> <<>>]
  /\ chanClosed = [a \in AggrIDs |-> FALSE]
  /\ activeWorkers = [a \in AggrIDs |-> 0]
  /\ wg = [a \in AggrIDs |-> 0]
  /\ wNew = [a \in AggrIDs |-> 0]
  /\ wSelect = [a \in AggrIDs |-> 0]
  /\ wBusy = [a \in AggrIDs |-> EmptyBag]
  /\ wExit = [a \in AggrIDs |-> 0]

\* The store the Processor starts on: the aggregation records as, the
\* limit l of a1 (the limit of a2 is 1) and the pending jobs js, all of
\* aggregation a1, with no retries so far and no file.
InitStore(as, l, js) ==
  /\ aggrLimit = [a \in as |-> IF a = "a1" THEN l ELSE 1]
  /\ jobURL \in [Jobs -> {"plain", "tls"}]
  /\ queue = [a \in AggrIDs |-> SeqOf({j \in js : JobAggr(j) = a})]
  /\ jobState = [j \in JobIDs |-> IF j \in js THEN "Pending" ELSE Absent]
  /\ jobRetries = [j \in JobIDs |-> 0]
  /\ jobMeta = [j \in JobIDs |-> NoMeta]
  /\ file = [j \in Jobs |-> NoFile]
  /\ requeues = [j \in JobIDs |-> 0]
  /\ served = [j \in Jobs |-> NoBody]

\* No request has reached the ingress API.
Reqs == {"r1", "r2"}
NoReq == "-"
InitApi ==
  /\ reqPc = [r \in Reqs |-> "idle"]
  /\ reqID = [r \in Reqs |-> NoReq]
  /\ reqTries = [r \in Reqs |-> 0]
  /\ reqAggr = [r \in Reqs |-> NoReq]
  /\ reqLimit = [r \in Reqs |-> 0]
  /\ reqResp = [r \in Reqs |-> 0]
  /\ saves = [a \in AggrIDs |-> 0]

\* The Processor on its own: two aggregations, a1 with the largest limit;
\* one pending job, whose URL may contain the text "tls"; the ingress API, a
\* process of its own, serves no request meanwhile.
Init ==
  /\ InitStore(AggrIDs, MaxLimit, Jobs)
  /\ InitProgram
  /\ InitApi

\* ------------------------------------------------------------- host ----
\* The host decides to shut down and blocks sending the pulse on closeCh.
HostShutdown ==
  /\ hostPc = "running"
  /\ hostPc' = "pulse"
  /\ UNCHANGED <<apiVars, storeVars, procPc, ctxCancelled, registry, nStarted,
                 nReaped, lastOp, poolVars, workerVars>>

\* -------------------------------------------------- Processor.Start ----
\* A select takes its default case only when no other case is ready.
WorkerCloseReady == \E a \in AggrIDs : wpPc[a] = "notify"
CloseChReady == hostPc = "pulse"

MapRemove(f, x) == [y \in DOMAIN f \ {x} |-> f[y]]
MapPut(f, x, v) == [y \in DOMAIN f \cup {x} |-> IF y = x THEN v ELSE f[y]]

\* case aggrID := <-workerClose: delete(p.pool, aggrID).  The send of the
\* pool's goroutine and this receive are one rendezvous.
ProcWorkerClose(a) ==
  /\ procPc = "select"
  /\ wpPc[a] = "notify"
  /\ registry' = MapRemove(registry, a)
  /\ wpPc' = [wpPc EXCEPT ![a] = "done"]
  /\ nReaped' = [nReaped EXCEPT ![a] = @ + 1]
  /\ lastOp' = "-"
  /\ UNCHANGED <<apiVars, storeVars, hostPc, procPc, ctxCancelled, nStarted, wpJob,
                 jobChan, chanClosed, activeWorkers, wg, workerVars>>

\* case <-closeCh: cancel()
ProcCloseSignal ==
  /\ procPc = "select"
  /\ CloseChReady
  /\ hostPc' = "waiting"
  /\ ctxCancelled' = TRUE
  /\ lastOp' = "-"
  /\ UNCHANGED <<apiVars, storeVars, procPc, registry, nStarted, nReaped, poolVars,
                 workerVars>>

\* ctx.Err() != nil
CtxErrNever == FALSE
CtxErr == ctxCancelled

\* len(p.pool) == 0
RegistryEmptyAlways == TRUE
RegistryEmpty == DOMAIN registry = {}

\* default: with the context cancelled, leave the loop once the registry
\* is empty, otherwise continue; else start a scan pass (cursor 0).
ProcDefault ==
  /\ procPc = "select"
  /\ ~WorkerCloseReady
  /\ ~CloseChReady
  /\ procPc' = IF CtxErr
               THEN (IF RegistryEmpty THEN "ack" ELSE "select")
               ELSE "scan"
  /\ lastOp' = "-"
  /\ UNCHANGED <<apiVars, storeVars, hostPc, ctxCancelled, registry, nStarted,
                 nReaped, poolVars, workerVars>>

\* Redis.Scan returned an error: the pass ends.
ProcScanErr ==
  /\ procPc = "scan"
  /\ procPc' = "select"
  /\ lastOp' = "-"
  /\ UNCHANGED <<apiVars, storeVars, hostPc, ctxCancelled, registry, nStarted,
                 nReaped, poolVars, workerVars>>

\* if cursor == 0 { break }
AfterBatch(more) == IF more THEN "scan" ELSE "select"

\* Redis.Scan returned no key.
ProcScanNone(more) ==
  /\ procPc = "scan"
  /\ procPc' = AfterBatch(more)
  /\ lastOp' = "-"
  /\ UNCHANGED <<apiVars, storeVars, hostPc, ctxCancelled, registry, nStarted,
                 nReaped, poolVars, workerVars>>

\* _, ok := p.pool[aggrID]
InRegistryNever(a) == FALSE
InRegistry(a) == a \in DOMAIN registry

\* Redis.Scan returned the key of aggregation a, one of the records of the
\* store (a key may come again, within a pass and across passes), and the
\* next cursor, 0 (more = FALSE) at the end of the pass.  A batch of several
\* keys is a run of these steps: between the keys of a batch, as between
\* batches, the Processor takes no other step.  A key of the registry is
\* skipped; otherwise GetAggregation is called and, unless it fails, a pool
\* is built (NewWorkerPool), registered and its goroutine spawned.
ProcScanKey(a, more, getOk) ==
  /\ procPc = "scan"
  /\ a \in DOMAIN aggrLimit
  /\ procPc' = AfterBatch(more)
  /\ IF InRegistry(a)
     THEN /\ lastOp' = "skip"
          /\ UNCHANGED <<registry, nStarted, poolVars>>
     ELSE /\ lastOp' = "get"
          /\ IF getOk
             THEN /\ registry' = MapPut(registry, a, nStarted[a] + 1)
                  /\ nStarted' = [nStarted EXCEPT ![a] = @ + 1]
                  /\ wpPc' = [wpPc EXCEPT ![a] = "loop"]
                  /\ wpJob' = [wpJob EXCEPT ![a] = NoJob]
                  /\ jobChan' = [jobChan EXCEPT ![a] = <<>>]
                  /\ chanClosed' = [chanClosed EXCEPT ![a] = FALSE]
                  /\ activeWorkers' = [activeWorkers EXCEPT ![a] = 0]
                  /\ wg' = [wg EXCEPT ![a] = 0]
             ELSE UNCHANGED <<registry, nStarted, poolVars>>
  /\ UNCHANGED <<apiVars, storeVars, hostPc, ctxCancelled, nReaped, workerVars>>

\* closeCh <- struct{}{}: the ack, received by the waiting host.
ProcAck ==
  /\ procPc = "ack"
  /\ hostPc = "waiting"
  /\ procPc' = "done"
  /\ hostPc' = "acked"
  /\ lastOp' = "-"
  /\ UNCHANGED <<apiVars, storeVars, ctxCancelled, registry, nStarted, nReaped,
                 poolVars, workerVars>>

ProcessorNext ==
  \/ \E a \in AggrIDs : ProcWorkerClose(a)
  \/ ProcCloseSignal
  \/ ProcDefault
  \/ ProcScanErr
  \/ \E more \in BOOLEAN : ProcScanNone(more)
  \/ \E a \in AggrIDs, more \in BOOLEAN, getOk \in BOOLEAN :
       ProcScanKey(a, more, getOk)
  \/ ProcAck

\* ------------------------------------------------- WorkerPool.Start ----
\* break WORKERPOOL_LOOP: the pool loop is left for wg.Wait()
AfterCloseContinue == "loop"
AfterClose == "wait"

\* case <-ctx.Done(): close(wp.jobChan); break WORKERPOOL_LOOP
PoolShutdown(a) ==
  /\ wpPc[a] = "loop"
  /\ ctxCancelled
  /\ chanClosed' = [chanClosed EXCEPT ![a] = TRUE]
  /\ wpPc' = [wpPc EXCEPT ![a] = AfterClose]
  /\ UNCHANGED <<apiVars, storeVars, procVars, wpJob, jobChan, activeWorkers, wg,
                 workerVars>>

\* default: PopJob returned an error ("Queue is empty" or a backend
\* error): continue.
PoolPopNone(a) ==
  /\ wpPc[a] = "loop"
  /\ ~ctxCancelled
  /\ UNCHANGED vars

\* default: PopJob returned the head of the pending queue, loaded from its
\* record; job.SetState(StateInProgress), its error ignored.
PoolPop(a, ok) ==
  /\ wpPc[a] = "loop"
  /\ ~ctxCancelled
  /\ queue[a] # <<>>
  /\ LET j == Head(queue[a])
         S == [Store EXCEPT !.queue[a] = Tail(@)]
     IN /\ wpJob' = [wpJob EXCEPT ![a] = [id |-> j, retries |-> jobRetries[j]]]
        /\ Commit(SetState(S, j, "InProgress", ok))
  /\ wpPc' = [wpPc EXCEPT ![a] = "send"]
  /\ UNCHANGED <<apiVars, aggrLimit, jobURL, file, served, procVars, jobChan,
                 chanClosed, activeWorkers, wg, workerVars>>

\* wp.jobChan <- job: blocks while the buffer is full.
PoolSend(a) ==
  /\ wpPc[a] = "send"
  /\ Len(jobChan[a]) < ChanCap
  /\ jobChan' = [jobChan EXCEPT ![a] = Append(@, wpJob[a])]
  /\ wpJob' = [wpJob EXCEPT ![a] = NoJob]
  /\ wpPc' = [wpPc EXCEPT ![a] = "check"]
  /\ UNCHANGED <<apiVars, storeVars, procVars, chanClosed, activeWorkers, wg,
                 workerVars>>

\* if wp.ActiveWorkers() < wp.Aggr.Limit { wg.Add(1); go func() ... }
CanSpawn(a) == activeWorkers[a] < aggrLimit[a]
PoolCheck(a) ==
  /\ wpPc[a] = "check"
  /\ IF CanSpawn(a)
     THEN /\ wg' = [wg EXCEPT ![a] = @ + 1]
          /\ wNew' = [wNew EXCEPT ![a] = @ + 1]
     ELSE UNCHANGED <<wg, wNew>>
  /\ wpPc' = [wpPc EXCEPT ![a] = "loop"]
  /\ UNCHANGED <<apiVars, storeVars, procVars, wpJob, jobChan, chanClosed,
                 activeWorkers, wSelect, wBusy, wExit>>

\* wg.Wait() returns; Start returns and the goroutine blocks sending the
\* aggregation ID on workerClose.
WaitDone(a) == wg[a] = 0
PoolWait(a) ==
  /\ wpPc[a] = "wait"
  /\ WaitDone(a)
  /\ wpPc' = [wpPc EXCEPT ![a] = "notify"]
  /\ UNCHANGED <<apiVars, storeVars, procVars, wpJob, jobChan, chanClosed,
                 activeWorkers, wg, workerVars>>

PoolNext(a) ==
  \/ PoolShutdown(a)
  \/ PoolPopNone(a)
  \/ \E ok \in BOOLEAN : PoolPop(a, ok)
  \/ PoolSend(a)
  \/ PoolCheck(a)
  \/ PoolWait(a)

\* ------------------------------------------- the worker goroutines ----
\* wp.IncreaseWorkers(), then wp.Work
WorkerBegin(a) ==
  /\ wNew[a] > 0
  /\ wNew' = [wNew EXCEPT ![a] = @ - 1]
  /\ activeWorkers' = [activeWorkers EXCEPT ![a] = @ + 1]
  /\ wSelect' = [wSelect EXCEPT ![a] = @ + 1]
  /\ UNCHANGED <<apiVars, storeVars, procVars, wpPc, wpJob, jobChan, chanClosed, wg,
                 wBusy, wExit>>

\* case job := <-wp.jobChan, a buffered job
WorkRecv(a) ==
  /\ wSelect[a] > 0
  /\ jobChan[a] # <<>>
  /\ jobChan' = [jobChan EXCEPT ![a] = Tail(@)]
  /\ wSelect' = [wSelect EXCEPT ![a] = @ - 1]
  /\ wBusy' = [wBusy EXCEPT ![a] = BagAdd(@, Head(jobChan[a]))]
  /\ UNCHANGED <<apiVars, storeVars, procVars, wpPc, wpJob, chanClosed,
                 activeWorkers, wg, wNew, wExit>>

\* case job := <-wp.jobChan on the closed, drained channel: the receive is
\* ready at once and yields the zero-valued Job.
WorkRecvClosed(a) ==
  /\ wSelect[a] > 0
  /\ jobChan[a] = <<>>
  /\ chanClosed[a]
  /\ wSelect' = [wSelect EXCEPT ![a] = @ - 1]
  /\ wBusy' = [wBusy EXCEPT ![a] = BagAdd(@, ZeroJob)]
  /\ UNCHANGED <<apiVars, storeVars, procVars, poolVars, wNew, wExit>>

\* default: return (the channel is open and empty)
WorkReturn(a) ==
  /\ wSelect[a] > 0
  /\ jobChan[a] = <<>>
  /\ ~chanClosed[a]
  /\ wSelect' = [wSelect EXCEPT ![a] = @ - 1]
  /\ wExit' = [wExit EXCEPT ![a] = @ + 1]
  /\ UNCHANGED <<apiVars, storeVars, procVars, poolVars, wNew, wBusy>>

\* defer wp.DecreaseWorkers(); defer wg.Done()
WorkerExit(a) ==
  /\ wExit[a] > 0
  /\ wExit' = [wExit EXCEPT ![a] = @ - 1]
  /\ activeWorkers' = [activeWorkers EXCEPT ![a] = @ - 1]
  /\ wg' = [wg EXCEPT ![a] = @ - 1]
  /\ UNCHANGED <<apiVars, storeVars, procVars, wpPc, wpJob, jobChan, chanClosed,
                 wNew, wSelect, wBusy>>

\* --------------------------------------------- WorkerPool.Work: a job ---
\* The worker that holds jv goes back to the select.
Release(a, jv) ==
  /\ wBusy' = [wBusy EXCEPT ![a] = BagRemove(@, jv)]
  /\ wSelect' = [wSelect EXCEPT ![a] = @ + 1]

\* os.Create(saveDir + job.ID) creates or truncates the job's file.
Created(f, id) == [f EXCEPT ![id] = EmptyFile]

\* The body the server answers the attempt with, if any.
Served(s, id, b) == IF id \in Jobs THEN [s EXCEPT ![id] = b] ELSE s

\* The transient outcomes all call job.RetryOrFail.
OnTransientRequeue(S, jv, reason) ==
  [S EXCEPT !.state[jv.id] = "Pending",
            !.retries[jv.id] = jv.retries + 1,
            !.meta[jv.id] = reason,
            !.queue = Requeue(S.queue, jv.id),
            !.requeues[jv.id] = @ + 1]
OnTransient(S, jv, reason) == RetryOrFail(S, jv, reason)

URLHasTLS(id) == jobURL[id] = "tls"

\* strings.Contains(err.Error(), "x509") || strings.Contains(err.Error(),
\* "tls"): the text of a request error holds the URL.
IsTLSErrorAlways(err, id) == TRUE
IsTLSError(err, id) == err = "tls" \/ URLHasTLS(id)

\* client.Do returned an error: a TLS error fails the job, any other error
\* (a cancelled context among them) goes to RetryOrFail.
RequestErrorStore(S, jv, err, ok) ==
  IF IsTLSError(err, jv.id)
  THEN SetStateWithMeta(S, jv.id, "Failed", Meta("TLS Error occured", 0), ok)
  ELSE OnTransient(S, jv, Meta(err, 0))

\* resp.StatusCode >= 500 / >= 400 && < 500 / otherwise
StatusClass(code) ==
  IF code >= StatusInternalServerError THEN "transient"
  ELSE IF code >= StatusBadRequest /\ code < StatusInternalServerError
       THEN "permanent"
       ELSE "ok"

\* _, err = io.Copy(out, resp.Body); err == nil
CopySucceededAlways(copyOk) == TRUE
CopySucceeded(copyOk) == copyOk

ResponseStoreFallThrough(S, jv, code, copyOk, ok) ==
  LET T == CASE StatusClass(code) = "transient" ->
                  OnTransient(S, jv, Meta("Received status code", code))
             [] StatusClass(code) = "permanent" ->
                  SetStateWithMeta(S, jv.id, "Failed",
                                   Meta("Received Status Code", code), ok)
             [] OTHER -> S
  IN IF CopySucceeded(copyOk)
     THEN SetState(T, jv.id, "Success", ok)
     ELSE OnTransient(T, jv, Meta("Could not download file", 0))
ResponseStore(S, jv, code, copyOk, ok) ==
  CASE StatusClass(code) = "transient" ->
         OnTransient(S, jv, Meta("Received status code", code))
    [] StatusClass(code) = "permanent" ->
         SetStateWithMeta(S, jv.id, "Failed",
                          Meta("Received Status Code", code), ok)
    [] OTHER ->
         IF CopySucceeded(copyOk)
         THEN SetState(S, jv.id, "Success", ok)
         ELSE OnTransient(S, jv, Meta("Could not download file", 0))

ResponseFile(f, id, code, body, copyOk) ==
  IF StatusClass(code) = "ok"
  THEN [f EXCEPT ![id] = IF copyOk THEN FullFile(body) ELSE PartialFile]
  ELSE [f EXCEPT ![id] = EmptyFile]

\* os.Create failed.  For the zero-valued Job it always does: saveDir + ""
\* is the storage directory itself.
WorkCreateErr(a, jv) ==
  /\ BagCount(wBusy[a], jv) > 0
  /\ Commit(OnTransient(Store, jv, Meta("Could not write to file", 0)))
  /\ Release(a, jv)
  /\ served' = Served(served, jv.id, NoBody)
  /\ UNCHANGED <<apiVars, aggrLimit, jobURL, file, procVars, poolVars, wNew, wExit>>

\* http.NewRequest failed (a malformed URL; the empty URL parses)
WorkReqErr(a, jv) ==
  /\ BagCount(wBusy[a], jv) > 0
  /\ jv.id \in Jobs
  /\ file' = Created(file, jv.id)
  /\ Commit(OnTransient(Store, jv, Meta("Could not create request", 0)))
  /\ Release(a, jv)
  /\ served' = Served(served, jv.id, NoBody)
  /\ UNCHANGED <<apiVars, aggrLimit, jobURL, procVars, poolVars, wNew, wExit>>

\* client.Do(req.WithContext(ctx)) failed: a TLS error, a network error or
\* the cancelled context.
WorkDoErr(a, jv, err, ok) ==
  /\ BagCount(wBusy[a], jv) > 0
  /\ err \in {"tls", "net", "canceled"}
  /\ err = "canceled" => ctxCancelled
  /\ jv.id \in Jobs
  /\ file' = Created(file, jv.id)
  /\ Commit(RequestErrorStore(Store, jv, err, ok))
  /\ Release(a, jv)
  /\ served' = Served(served, jv.id, NoBody)
  /\ UNCHANGED <<apiVars, aggrLimit, jobURL, procVars, poolVars, wNew, wExit>>

\* client.Do returned a response with status code and body; the body copy
\* ends well (copyOk) or with an error.
WorkResponse(a, jv, code, body, copyOk, ok) ==
  /\ BagCount(wBusy[a], jv) > 0
  /\ jv.id \in Jobs
  /\ file' = ResponseFile(file, jv.id, code, body, copyOk)
  /\ served' = Served(served, jv.id,
                      IF StatusClass(code) = "ok" THEN body ELSE NoBody)
  /\ Commit(ResponseStore(Store, jv, code, copyOk, ok))
  /\ Release(a, jv)
  /\ UNCHANGED <<apiVars, aggrLimit, jobURL, procVars, poolVars, wNew, wExit>>

JobVals == [id : JobIDs, retries : 0..MaxRetries]

WorkerNext(a) ==
  \/ WorkerBegin(a)
  \/ WorkRecv(a)
  \/ WorkRecvClosed(a)
  \/ WorkReturn(a)
  \/ WorkerExit(a)
  \/ \E jv \in DOMAIN wBusy[a] : WorkCreateErr(a, jv)
  \/ \E jv \in DOMAIN wBusy[a] : WorkReqErr(a, jv)
  \/ \E jv \in DOMAIN wBusy[a], err \in {"tls", "net", "canceled"},
        ok \in BOOLEAN : WorkDoErr(a, jv, err, ok)
  \/ \E jv \in DOMAIN wBusy[a], code \in StatusCodes,
        copyOk \in BOOLEAN, ok \in BOOLEAN :
       WorkResponse(a, jv, code, Body(jv.retries), copyOk, ok)

Next ==
  \/ HostShutdown
  \/ ProcessorNext
  \/ \E a \in AggrIDs : PoolNext(a)
  \/ \E a \in AggrIDs : WorkerNext(a)

Spec == Init /\ [][Next]_vars

TypeOK ==
  /\ \A j \in Jobs : jobState[j] \in States \cup {Absent}
  /\ \A a \in AggrIDs : Len(jobChan[a]) <= ChanCap

\* Fair scheduling of the goroutines: the Processor, every pool loop and
\* every step of the workers is taken if it stays possible, and a scan pass
\* ends (the cursored enumeration returns cursor 0 in the end).  The host
\* is free never to shut down.
Fairness ==
  /\ WF_vars(ProcessorNext)
  /\ SF_vars(ProcScanNone(FALSE))
  /\ \A a \in AggrIDs :
       /\ WF_vars(PoolNext(a))
       /\ WF_vars(WorkerBegin(a))
       /\ WF_vars(WorkRecv(a))
       /\ WF_vars(WorkRecvClosed(a))
       /\ WF_vars(WorkReturn(a))
       /\ WF_vars(WorkerExit(a))
       /\ WF_vars(WorkerNext(a))
FairSpec == Init /\ [][Next]_vars /\ Fairness

\* ------------------------------------------- ingress API: ServeHTTP ----
\* The IDs idgen.rand() may return.
ApiIDs == {"j1", "j2"}

\* The handler answers with status code and returns.
Answer(r, code) ==
  /\ reqPc' = [reqPc EXCEPT ![r] = "done"]
  /\ reqResp' = [reqResp EXCEPT ![r] = code]
Goto(r, pc) ==
  /\ reqPc' = [reqPc EXCEPT ![r] = pc]
  /\ UNCHANGED reqResp

\* Storage.JobExists / Storage.AggregationExists
JobExists(id) == jobState[id] # Absent
AggregationExists(a) == a \in DOMAIN aggrLimit

\* A POST request is read and parsed into a Job; a body that cannot be
\* read or parsed is answered 400.
ApiStart(r, a, l, parses) ==
  /\ reqPc[r] = "idle"
  /\ IF parses
     THEN /\ Goto(r, "id")
          /\ reqAggr' = [reqAggr EXCEPT ![r] = a]
          /\ reqLimit' = [reqLimit EXCEPT ![r] = l]
     ELSE /\ Answer(r, StatusBadRequest)
          /\ UNCHANGED <<reqAggr, reqLimit>>
  /\ UNCHANGED <<storeVars, procVars, poolVars, workerVars, reqID, reqTries,
                 saves>>

\* One pass of the ID loop: j.ID = idgen.rand(); JobExists.  An error is
\* answered 500; a free ID ends the loop; after MaxTries taken IDs the
\* request is answered 500.
ApiPickID(r, id, ok) ==
  /\ reqPc[r] = "id"
  /\ reqID' = [reqID EXCEPT ![r] = id]
  /\ IF ~ok
     THEN Answer(r, StatusInternalServerError) /\ UNCHANGED reqTries
     ELSE IF ~JobExists(id)
     THEN Goto(r, "aggr") /\ UNCHANGED reqTries
     ELSE /\ reqTries' = [reqTries EXCEPT ![r] = @ + 1]
          /\ IF reqTries[r] + 1 < MaxTries
             THEN Goto(r, "id")
             ELSE Answer(r, StatusInternalServerError)
  /\ UNCHANGED <<storeVars, procVars, poolVars, workerVars, reqAggr,
                 reqLimit, saves>>

\* The body is parsed into an Aggregation (400 if it cannot be), then
\* AggregationExists: an error is answered 500.
ApiAggrExists(r, parses, ok) ==
  /\ reqPc[r] = "aggr"
  /\ IF ~parses THEN Answer(r, StatusBadRequest)
     ELSE IF ~ok THEN Answer(r, StatusInternalServerError)
     ELSE IF AggregationExists(reqAggr[r]) THEN Goto(r, "queue")
     ELSE Goto(r, "save")
  /\ UNCHANGED <<storeVars, procVars, poolVars, workerVars, reqID, reqTries,
                 reqAggr, reqLimit, saves>>

\* err = as.Storage.SaveAggregation(aggr); err != nil
SaveErrIgnored(ok) == FALSE
SaveErr(ok) == ~ok

\* SaveAggregation writes the aggregation record; an error, which leaves
\* the store as it was, is answered 500.
ApiSave(r, ok) ==
  /\ reqPc[r] = "save"
  /\ IF ok
     THEN /\ aggrLimit' = MapPut(aggrLimit, reqAggr[r], reqLimit[r])
          /\ saves' = [saves EXCEPT ![reqAggr[r]] = @ + 1]
     ELSE UNCHANGED <<aggrLimit, saves>>
  /\ IF SaveErr(ok)
     THEN Answer(r, StatusInternalServerError)
     ELSE Goto(r, "queue")
  /\ UNCHANGED <<jobURL, queue, jobState, jobRetries, jobMeta, file,
                 requeues, served, procVars, poolVars, workerVars, reqID,
                 reqTries, reqAggr, reqLimit>>

\* QueuePendingDownload saves the job record and appends the ID to the
\* pending queue of its aggregation; an error, which leaves the store as
\* it was, is answered 500, success 201 with the ID.
ApiQueue(r, ok) ==
  /\ reqPc[r] = "queue"
  /\ IF ok
     THEN /\ jobState' = [jobState EXCEPT ![reqID[r]] = "Pending"]
          /\ queue' = [queue EXCEPT ![reqAggr[r]] = Append(@, reqID[r])]
          /\ Answer(r, StatusCreated)
     ELSE /\ UNCHANGED <<jobState, queue>>
          /\ Answer(r, StatusInternalServerError)
  /\ UNCHANGED <<aggrLimit, jobURL, jobRetries, jobMeta, file, requeues,
                 served, procVars, poolVars, workerVars, reqID, reqTries,
                 reqAggr, reqLimit, saves>>

ApiNext ==
  \/ \E r \in Reqs, a \in AggrIDs, l \in 1..MaxLimit, parses \in BOOLEAN :
       ApiStart(r, a, l, parses)
  \/ \E r \in Reqs, id \in ApiIDs, ok \in BOOLEAN : ApiPickID(r, id, ok)
  \/ \E r \in Reqs, parses \in BOOLEAN, ok \in BOOLEAN :
       ApiAggrExists(r, parses, ok)
  \/ \E r \in Reqs, ok \in BOOLEAN : ApiSave(r, ok)
  \/ \E r \in Reqs, ok \in BOOLEAN : ApiQueue(r, ok)

\* The ingress API on its own, on an empty store: requests r1 and r2, served
\* concurrently, each store call one step.
ApiInitStore ==
  /\ aggrLimit = <<>>
  /\ jobURL = [j \in ApiIDs |-> "plain"]
  /\ queue = [a \in AggrIDs |-> <<>>]
  /\ jobState = [j \in ApiIDs |-> Absent]
  /\ jobRetries = [j \in ApiIDs |-> 0]
  /\ jobMeta = [j \in ApiIDs |-> NoMeta]
  /\ file = [j \in ApiIDs |-> NoFile]
  /\ requeues = [j \in ApiIDs |-> 0]
  /\ served = [j \in ApiIDs |-> NoBody]
ApiInit == ApiInitStore /\ InitProgram /\ InitApi
ApiSpec == ApiInit /\ [][ApiNext]_vars

\* ---------------------------------------------------------- helpers ----
NoWorkers(a) ==
  wNew[a] = 0 /\ wSelect[a] = 0 /\ wExit[a] = 0 /\ DOMAIN wBusy[a] = {}
LivePools(a) == nStarted[a] - nReaped[a]
InFlight(j) ==
  \/ \E a \in AggrIDs :
       \/ \E i \in 1..Len(queue[a]) : queue[a][i] = j
       \/ wpJob[a].id = j
       \/ \E i \in 1..Len(jobChan[a]) : jobChan[a][i].id = j
       \/ \E jv \in DOMAIN wBusy[a] : jv.id = j

\* ----------------------------------------------------------- claims ----

\* C1. Concurrency ceiling: in every reachable state the number of worker
\* goroutines of a pool that have called IncreaseWorkers and not yet
\* DecreaseWorkers is at most the aggregation's Limit.
ConcurrencyCeiling ==
  \A a \in DOMAIN aggrLimit : activeWorkers[a] <= aggrLimit[a]

\* C2. Shutdown liveness: once the Processor has taken the shutdown pulse
\* from closeCh, under fair scheduling it eventually empties the registry
\* and sends its ack.
ShutdownLiveness ==
  (hostPc = "waiting") ~> (hostPc = "acked" /\ RegistryEmpty)

\* C3. Shutdown completeness: whenever the Processor is sending or has sent
\* its ack, the registry is empty, no WorkerPool.Start goroutine is running
\* and no worker goroutine of any pool is running.
ShutdownCompleteness ==
  procPc \in {"ack", "done"} =>
    /\ DOMAIN registry = {}
    /\ \A a \in AggrIDs : wpPc[a] \in {"none", "done"} /\ NoWorkers(a)
ShutdownCompletenessWitness ==
  /\ hostPc = "acked"
  /\ \A a \in AggrIDs : nReaped[a] = 1
  /\ jobState["j1"] = "Success"

\* C4. Pool uniqueness: for each aggregation ID at most one spawned
\* WorkerPool.Start goroutine has not had its termination received, the
\* registry holds the ID exactly while there is one, and a pool is spawned
\* only when no earlier pool of the ID is running.
PoolUniquenessInv ==
  \A a \in AggrIDs :
    /\ LivePools(a) <= 1
    /\ a \in DOMAIN registry <=> LivePools(a) = 1
PoolUniqueness ==
  /\ []PoolUniquenessInv
  /\ [][\A a \in AggrIDs :
          nStarted'[a] # nStarted[a] => wpPc[a] \in {"none", "done"}]_vars
PoolUniquenessWitness ==
  /\ lastOp = "skip"
  /\ \A a \in AggrIDs : LivePools(a) = 1
  /\ wpPc["a1"] = "check"

\* C5. Job state progression: a job whose stored state is Success or Failed
\* is never written Pending or InProgress afterwards, and is in no pending
\* queue, not held by the pool loop, not in jobChan and held by no worker.
TerminalAtRest ==
  \A j \in Jobs : jobState[j] \in Terminal => ~InFlight(j)
JobStateProgression ==
  /\ []TerminalAtRest
  /\ [][\A j \in Jobs :
          jobState[j] \in Terminal =>
            jobState'[j] \notin {"Pending", "InProgress"}]_vars
JobStateProgressionWitness ==
  /\ jobState["j1"] = "Failed"
  /\ jobRetries["j1"] = MaxRetries
  /\ wpPc["a1"] = "loop"
  /\ wSelect["a1"] > 0

\* C6 as stated: a fetch aborted by the cancelled context leaves the job's
\* stored state and retry counter as they were.
IsCancelAbort(j) ==
  \E a \in AggrIDs : \E jv \in DOMAIN wBusy[a] : \E ok \in BOOLEAN :
    jv.id = j /\ WorkDoErr(a, jv, "canceled", ok)
RetryBoundInv ==
  \A j \in Jobs : requeues[j] <= MaxRetries /\ jobRetries[j] <= MaxRetries
RetryBoundedness ==
  /\ []RetryBoundInv
  /\ [][\A j \in Jobs : jobRetries'[j] >= jobRetries[j]]_vars
RetryBoundednessWitness ==
  /\ requeues["j1"] = MaxRetries
  /\ jobState["j1"] = "Failed"
  /\ jobMeta["j1"].text = "Received status code"

\* C8. Scan idempotence: when the Processor processes a scanned key that is
\* already in the registry, the registry, the pool handle, the pool and its
\* goroutines are unchanged and GetAggregation is not called.
IsRescan(a) ==
  \E more \in BOOLEAN, getOk \in BOOLEAN :
    a \in DOMAIN registry /\ ProcScanKey(a, more, getOk)
ScanIdempotence ==
  [][\A a \in AggrIDs :
       IsRescan(a) =>
         /\ UNCHANGED <<registry, nStarted, poolVars, workerVars, storeVars>>
         /\ lastOp' = "skip"]_vars
ScanIdempotenceWitness ==
  /\ lastOp = "skip"
  /\ LivePools("a1") = 1
  /\ LivePools("a2") = 0
  /\ wpPc["a1"] = "send"

\* C9. Permanent failure leaves no artifact: a job failed by a 4xx response
\* (metadata "Received Status Code <code>") has no file at its storage path.
PermanentFailureNoArtifact ==
  \A j \in Jobs :
    (jobState[j] = "Failed" /\ jobMeta[j].text = "Received Status Code")
      => file[j] = NoFile

\* C10. Storage correctness: a job in state Success has at its storage path
\* exactly the complete body served by the attempt that set Success, and
\* Success is written only by an attempt whose response was below 400 and
\* whose body copy ended without error.
StorageCorrectInv ==
  \A j \in Jobs :
    jobState[j] = "Success" =>
      served[j] # NoBody /\ file[j] = FullFile(served[j])
SuccessStep(j) ==
  \E a \in AggrIDs : \E jv \in DOMAIN wBusy[a] :
    \E code \in StatusCodes :
      /\ jv.id = j
      /\ code < StatusBadRequest
      /\ WorkResponse(a, jv, code, Body(jv.retries), TRUE, TRUE)
StorageCorrectness ==
  /\ []StorageCorrectInv
  /\ [][\A j \in Jobs :
          (jobState'[j] = "Success" /\ jobState[j] # "Success")
            => SuccessStep(j)]_vars
StorageCorrectnessWitness ==
  /\ jobState["j1"] = "Success"
  /\ jobRetries["j1"] = 1
  /\ jobMeta["j1"].text = "Could not download file"
  /\ file["j1"] = FullFile(Body(1))

\* C13. Pool termination: once the pool loop has closed jobChan, under fair
\* scheduling every worker of the pool returns from Work, wg.Wait returns
\* and the pool's goroutine sends the aggregation ID on workerClose.
PoolTermination ==
  \A a \in AggrIDs : chanClosed[a] ~> (wpPc[a] \in {"notify", "done"})

\* C14. Hand-off: a job sent into jobChan is received by a worker.  No job
\* stays in the channel buffer while the pool loop has gone past its spawn
\* test and the pool has no worker goroutine, spawned or running: from such
\* a state no worker is ever spawned before another send, which the full
\* buffer blocks, so the job is never received and the pool loop blocks on
\* its next send.
BufferedJobHasWorker ==
  \A a \in AggrIDs :
    (wpPc[a] \in {"loop", "send"} /\ jobChan[a] # <<>> /\ ~ctxCancelled)
      => ~NoWorkers(a)

\* C14 as a progress property under FairSpec: a job in hand-off is, unless
\* a shutdown occurs, eventually received by a worker that ends its attempt
\* at it.  It fails on the behaviours that stay in a state excluded by
\* BufferedJobHasWorker.
InHandOff(j) ==
  \E a \in AggrIDs :
    \/ wpPc[a] = "send" /\ wpJob[a].id = j
    \/ \E i \in 1..Len(jobChan[a]) : jobChan[a][i].id = j
AttemptEnded(j) ==
  /\ ~InHandOff(j)
  /\ \A a \in AggrIDs : \A jv \in DOMAIN wBusy[a] : jv.id # j
HandOffLiveness ==
  \A j \in Jobs : InHandOff(j) ~> (ctxCancelled \/ AttemptEnded(j))

\* C15. No send follows the close: once jobChan of a pool is closed the pool
\* loop has left its loop, and no step sends on jobChan or closes it again.
ClosedLeftLoop ==
  \A a \in AggrIDs : chanClosed[a] => wpPc[a] \in {"wait", "notify", "done"}
NoSendAfterClose ==
  /\ []ClosedLeftLoop
  /\ [][\A a \in AggrIDs :
          chanClosed[a] => ~PoolSend(a) /\ ~PoolShutdown(a)]_vars
NoSendAfterCloseWitness ==
  /\ chanClosed["a1"]
  /\ wpPc["a1"] = "wait"
  /\ jobChan["a1"] # <<>>
  /\ wSelect["a1"] > 0

\* C16. No scan after the cancel: once the Processor has cancelled the
\* shared context it is never in a scan pass again, and no step calls
\* GetAggregation, adds a key to the registry or spawns a pool goroutine:
\* the registry only shrinks.
NoScanAfterCancel ==
  /\ [](ctxCancelled => procPc # "scan")
  /\ [][ctxCancelled =>
          /\ procPc' # "scan"
          /\ lastOp' # "get"
          /\ DOMAIN registry' \subseteq DOMAIN registry
          /\ nStarted' = nStarted]_vars
NoScanAfterCancelWitness ==
  /\ ctxCancelled
  /\ procPc = "select"
  /\ DOMAIN registry = {"a2"}
  /\ nReaped["a1"] = 1

\* C17. InProgress precedes the fetch: whenever a worker holds a job it has
\* received from jobChan, the job's stored state is InProgress.
InProgressWhileFetched ==
  \A a \in AggrIDs : \A jv \in DOMAIN wBusy[a] :
    jv.id \in Jobs => jobState[jv.id] = "InProgress"

\* C18. Response classification, statuses 408 and 429: a job is never
\* failed by a 408 or a 429 response (they are transient: RetryOrFail is
\* applied, with metadata "Received status code").
RetryableStatus == {408, 429}
TimeoutIsTransient ==
  \A j \in Jobs :
    ~(/\ jobState[j] = "Failed"
      /\ jobRetries[j] < MaxRetries
      /\ jobMeta[j] \in {Meta("Received Status Code", c) : c \in RetryableStatus})

\* C11. Job ID uniqueness: no two requests are answered 201 with the same
\* job ID.
UniqueAccepted ==
  \A r1 \in Reqs : \A r2 \in Reqs \ {r1} :
    (reqResp[r1] = StatusCreated /\ reqResp[r2] = StatusCreated)
      => reqID[r1] # reqID[r2]

\* C12. Every job in a pending queue references an aggregation whose record
\* exists in the store, also after requests whose store calls failed.
QueuedHasAggregation ==
  \A a \in AggrIDs : queue[a] # <<>> => a \in DOMAIN aggrLimit
QueuedHasAggregationWitness ==
  /\ reqAggr["r1"] = "a2"
  /\ reqResp["r1"] = StatusInternalServerError
  /\ "a2" \in DOMAIN aggrLimit
  /\ queue["a2"] = <<>>
  /\ reqAggr["r2"] = "a1"
  /\ reqResp["r2"] = StatusCreated
  /\ queue["a1"] = <<"j1">>

\* C19. The ingress API never overwrites an aggregation: SaveAggregation
\* writes a given aggregation ID at most once, and the limit of a stored
\* aggregation record never changes.
NoOverwrite ==
  /\ [](\A a \in AggrIDs : saves[a] <= 1)
  /\ [][\A a \in DOMAIN aggrLimit :
          a \in DOMAIN aggrLimit' /\ aggrLimit'[a] = aggrLimit[a]]_vars

====
